---- MODULE Spec2Model ----
(***************************************************************************)
(* State-machine model of analysis/webservice/algorithms/doms/             *)
(* ResultsStorage.py: ResultsStorage.insertResults (flattening of the      *)
(* matchup forest, chunked asynchronous writes with whole-pass retry) and  *)
(* ResultsRetrieval.retrieveResults (reconstruction of the forest from the *)
(* doms_data rows).                                                        *)
(*                                                                         *)
(* The Cassandra session is the environment: an INSERT is an upsert keyed  *)
(* by the row id, execute_async returns a future that the store resolves   *)
(* later, with success or with an error; a write that resolves with an     *)
(* error (a timeout, say) may or may not have been applied.  A SELECT      *)
(* returns the matching rows in an order the store chooses.                *)
(***************************************************************************)
EXTENDS Integers, Sequences, FiniteSets, TLC

\* ---------------------------------------------------------------- bounds
\* Largest number of MatchPoints in an input forest.
MaxNodes == 3
\* Point identifiers are None or 1..NumIds.
NumIds == 2
\* Number of failed writes the store produces for an arbitrary forest (the
\* forests of RetryForests get an unbounded number of failures).
MaxFaults == 1

\* ------------------------------------------------------- program constants
\* BATCH_SIZE = 1024 in the source; scaled down so that a forest of MaxNodes
\* rows spans more than one batch.
BATCH_SIZE == 2
\* range(5): the number of write passes of __insertResults.
MaxPasses == 5
\* Python's None (execution_id=None, primaryId None, a null point id).
None == 0
\* The execution ids a caller supplies to insertResults (besides None), and
\* those it asks retrieveResults for.
CallerIds == {101}
ReaderIds == {102}

PointIds == {None} \cup (1..NumIds)

\* ------------------------------------------------------------ input forests
\* A MatchPoint is a record (a Python dict): id, lon, lat, source, time, depth,
\* fileurl, the payload under "primary" or "secondary", and "matches" when it
\* has any; no point of the model has a "platform" or a "device" key.
RECURSIVE ForestShapes(_)
RECURSIVE TreeShapes(_)
TreeShapes(n) ==
  {[id |-> p, matches |-> f] : p \in PointIds, f \in ForestShapes(n - 1)}

ForestShapes(n) ==
  IF n = 0 THEN {<<>>}
  ELSE UNION {{<<t>> \o f : t \in TreeShapes(k), f \in ForestShapes(n - k)} : k \in 1..n}

RECURSIVE Size(_)
Size(f) == IF f = <<>> THEN 0 ELSE 1 + Size(Head(f).matches) + Size(Tail(f))

\* The attributes of the n-th MatchPoint (in preorder) of the input: every
\* occurrence has its own position and time; top-level points come from
\* dataset "A" and carry a "primary" payload, matches come from "B" and carry
\* a "secondary" payload.
RECURSIVE MakeForest(_, _, _)
MakePoint(t, n, top) ==
  LET base == [id |-> t.id, lon |-> n, lat |-> n + 10, time |-> n + 20,
               source |-> IF top THEN "A" ELSE "B",
               depth |-> n + 40, fileurl |-> n + 50]
      pay  == IF top THEN [primary |-> n + 30] ELSE [secondary |-> n + 30]
      kids == IF t.matches = <<>> THEN <<>>
              ELSE MakeForest(t.matches, n + 1, FALSE)
      all  == IF t.matches = <<>>
              THEN [k \in DOMAIN base \cup DOMAIN pay |->
                      IF k \in DOMAIN base THEN base[k] ELSE pay[k]]
              ELSE [k \in DOMAIN base \cup DOMAIN pay \cup {"matches"} |->
                      IF k = "matches" THEN kids
                      ELSE IF k \in DOMAIN base THEN base[k] ELSE pay[k]]
  IN all

MakeForest(f, n, top) ==
  IF f = <<>> THEN <<>>
  ELSE <<MakePoint(Head(f), n, top)>>
         \o MakeForest(Tail(f), n + Size(<<Head(f)>>), top)

Forests == {MakeForest(f, 1, TRUE) : f \in UNION {ForestShapes(n) : n \in 0..MaxNodes}}

\* The forests written against a store that may fail any number of writes:
\* the write engine treats rows as opaque, so one forest per row count, of
\* top-level points that all have point id 1.
FlatShape(n) == [k \in 1..n |-> [id |-> 1, matches |-> <<>>]]
RetryForests == {MakeForest(FlatShape(n), 1, TRUE) : n \in 0..MaxNodes}

\* ------------------------------------------------------------- the flattener
\* json.dumps(data, cls=DomsEncoder) and json.loads: the text form of a payload.
JsonDumps(data) == <<"json", data>>
JsonLoads(text) == text[2]

\* The payload of a MatchPoint: result['primary'], else result['secondary'],
\* else [].
PayloadOf(result) ==
  IF "primary" \in DOMAIN result THEN result.primary
  ELSE IF "secondary" \in DOMAIN result THEN result.secondary
  ELSE <<>>

\* uuid4(): the n-th value drawn.  UUIDs are kept apart from point ids and from
\* the ids callers supply.
Uuid(n) == 1000 + n

\* The is_primary column: 1 if primaryId is None else 0.
IsPrimary(primaryId) == IF primaryId = None THEN 1 ELSE 0

\* Mutant: the matches get the primaryId their parent got.
ChildPrimaryIdInherited(result, primaryId, result_id) ==
  IF primaryId = None THEN result.id ELSE primaryId

\* The primaryId passed down to the matches of a result whose own row got
\* result_id: the recursive call passes result["id"].
ChildPrimaryId(result, primaryId, result_id) == result.id

\* __prepare_result: the rows of result and of its matches, in preorder.  The
\* uuid4() calls are drawn from a counter: the first row gets ctr + 1.
RECURSIVE prepare_result(_, _, _, _)
RECURSIVE prepare_matches(_, _, _, _)
prepare_result(execution_id, primaryId, result, ctr) ==
  LET data == PayloadOf(result)
      result_id == Uuid(ctr + 1)
      insert_params ==
        [id |-> result_id,
         execution_id |-> execution_id,
         value_id |-> result.id,
         primary_value_id |-> primaryId,
         x |-> result.lon,
         y |-> result.lat,
         source_dataset |-> result.source,
         measurement_time |-> result.time,
         platform |-> IF "platform" \in DOMAIN result THEN result.platform ELSE None,
         device |-> IF "device" \in DOMAIN result THEN result.device ELSE None,
         measurement_values_json |-> JsonDumps(data),
         is_primary |-> IsPrimary(primaryId),
         depth |-> result.depth,
         file_url |-> result.fileurl]
  IN <<insert_params>>
       \o (IF "matches" \in DOMAIN result
           THEN prepare_matches(execution_id, ChildPrimaryId(result, primaryId, result_id),
                                result.matches, ctr + 1)
           ELSE <<>>)

\* for match in result["matches"]: params_list.extend(__prepare_result(...))
prepare_matches(execution_id, primaryId, matches, ctr) ==
  IF matches = <<>> THEN <<>>
  ELSE LET first == prepare_result(execution_id, primaryId, Head(matches), ctr)
       IN first \o prepare_matches(execution_id, primaryId, Tail(matches),
                                   ctr + Len(first))

\* for result in results: inserts.extend(__prepare_result(execution_id, None, ...))
PrepareAll(execution_id, results, ctr) ==
  prepare_matches(execution_id, None, results, ctr)

\* query_batches: insert_params cut into slices of BATCH_SIZE rows.
Slice(s, from, to) == [k \in 1..(to - from + 1) |-> s[from + k - 1]]
Min(a, b) == IF a < b THEN a ELSE b
\* Mutant: the last, shorter slice is left out.
BatchesOfFull(insert_params, size) ==
  [b \in 1..(Len(insert_params) \div size) |->
     Slice(insert_params, (b - 1) * size + 1, b * size)]
BatchesOf(insert_params, size) ==
  [b \in 1..((Len(insert_params) + size - 1) \div size) |->
     Slice(insert_params, (b - 1) * size + 1, Min(b * size, Len(insert_params)))]
QueryBatches(insert_params) == BatchesOf(insert_params, BATCH_SIZE)

\* ------------------------------------------------------------ the retriever
\* str(x), float(x), the point label and .replace(tzinfo=UTC) of __rowToDataEntry.
Str(x) == <<"str", x>>
Float(x) == x
PointLabel(x, y) == <<"Point", Float(x), Float(y)>>
Utc(t) == <<t, "UTC">>

\* entry[key] = value on a dict held as a function from keys to values.
SetKey(entry, key, value) ==
  [k \in DOMAIN entry \cup {key} |-> IF k = key THEN value ELSE entry[k]]

\* Lines 300-320: the fields of an entry before the payload is added.
EntryFields(row, trim_data) ==
  IF trim_data
  THEN [lon |-> Float(row.x),
        lat |-> Float(row.y),
        source |-> row.source_dataset,
        time |-> Utc(row.measurement_time)]
  ELSE [platform |-> row.platform,
        device |-> row.device,
        lon |-> Str(row.x),
        lat |-> Str(row.y),
        point |-> PointLabel(row.x, row.y),
        time |-> Utc(row.measurement_time),
        depth |-> IF row.depth # None THEN Float(row.depth) ELSE None,
        fileurl |-> IF "file_url" \in DOMAIN row THEN row.file_url ELSE None,
        id |-> row.value_id,
        source |-> row.source_dataset]

\* entry[key] = float(row.measurement_values[key]) for every key of the map.
RECURSIVE SetKeys(_, _, _)
SetKeys(entry, values, keys) ==
  IF keys = {} THEN entry
  ELSE LET k == CHOOSE q \in keys : TRUE
       IN SetKeys(SetKey(entry, k, Float(values[k])), values, keys \ {k})

\* Mutant: the map of the old schema is put under the payload key as well.
AddPayloadNested(entry, row) ==
  IF "measurement_values_json" \in DOMAIN row
  THEN SetKey(entry, IF row.is_primary = 1 THEN "primary" ELSE "secondary",
              JsonLoads(row.measurement_values_json))
  ELSE SetKey(entry, IF row.is_primary = 1 THEN "primary" ELSE "secondary",
              row.measurement_values)

\* Lines 324-329: the payload, from the JSON column or, on a row of the old
\* schema (no measurement_values_json attribute), from measurement_values.
AddPayload(entry, row) ==
  IF "measurement_values_json" \in DOMAIN row
  THEN SetKey(entry, IF row.is_primary = 1 THEN "primary" ELSE "secondary",
              JsonLoads(row.measurement_values_json))
  ELSE SetKeys(entry, row.measurement_values, DOMAIN row.measurement_values)

\* __rowToDataEntry
rowToDataEntry(row, trim_data) == AddPayload(EntryFields(row, trim_data), row)

\* A Python dict with its insertion order: a sequence of [key, value] records.
HasKey(dict, key) == \E n \in 1..Len(dict) : dict[n].key = key
Get(dict, key) == dict[CHOOSE n \in 1..Len(dict) : dict[n].key = key].value
\* Mutant: the first value stored under a key stays.
PutFirst(dict, key, value) ==
  IF HasKey(dict, key) THEN dict
  ELSE Append(dict, [key |-> key, value |-> value])

\* dict[key] = value: a new key goes last, an old key keeps its place.
Put(dict, key, value) ==
  IF HasKey(dict, key)
  THEN [n \in 1..Len(dict) |->
          IF dict[n].key = key THEN [key |-> key, value |-> value] ELSE dict[n]]
  ELSE Append(dict, [key |-> key, value |-> value])

\* Lines 294-298: dataMap[row.value_id] = entry for the rows in read order.
RECURSIVE PrimaryMap(_, _, _)
PrimaryMap(dataMap, rows, trim_data) ==
  IF rows = <<>> THEN dataMap
  ELSE PrimaryMap(Put(dataMap, Head(rows).value_id,
                      rowToDataEntry(Head(rows), trim_data)),
                  Tail(rows), trim_data)

\* The key under which a non-primary row looks for its primary.
LookupKey(row) == row.primary_value_id

\* Lines 281-288: one non-primary row is appended to the matches of the entry
\* found under its primary_value_id, or printed and left out.
Attach(dataMap, row, trim_data) ==
  LET entry == rowToDataEntry(row, trim_data)
      key == LookupKey(row)
  IN IF HasKey(dataMap, key)
     THEN LET old == Get(dataMap, key)
              had == IF "matches" \in DOMAIN old THEN old.matches ELSE <<>>
          IN Put(dataMap, key, SetKey(old, "matches", Append(had, entry)))
     ELSE dataMap

RECURSIVE Enrich(_, _, _)
Enrich(dataMap, rows, trim_data) ==
  IF rows = <<>> THEN dataMap
  ELSE Enrich(Attach(dataMap, Head(rows), trim_data), Tail(rows), trim_data)

\* data = [dataMap[name] for name in dataMap]
Values(dict) == [n \in 1..Len(dict) |-> dict[n].value]

\* The orders in which a SELECT may return a set of rows.
RECURSIVE Orders(_)
Orders(S) ==
  IF S = {} THEN {<<>>}
  ELSE UNION {{<<r>> \o o : o \in Orders(S \ {r})} : r \in S}

\* SELECT * FROM doms_data where execution_id = %s and is_primary = <flag>
SelectData(table, id, primary) ==
  {r \in table : r.execution_id = id /\ (r.is_primary = 1) = primary}

\* --------------------------------------------------------------------- state
VARIABLES
  results,          \* the forest passed to insertResults
  arg,              \* the execution_id argument of insertResults
  mode,             \* "few": at most MaxFaults failed writes; "any": no limit
  faults,           \* failed writes so far (counted in mode "few")
  pc,               \* where the insertResults call stands
  execution_id,     \* the local execution_id of insertResults (None: not yet)
  uuidCtr,          \* number of uuid4() values drawn so far
  inserts,          \* the flattened row sequence of __insertResults
  insert_params,    \* the rows handed to the current __insert_result_batches
  i,                \* the pass index of for i in range(5)
  batch,            \* index of the current batch in query_batches (1-based)
  futures,          \* the futures of the current batch: "pending", "ok", "err"
  awaited,          \* how many futures of the batch future.result() has joined
  move_successful,  \* the pass-level flag of __insert_result_batches
  doms_executions,  \* ids of the rows of table doms_executions
  doms_params,      \* execution ids of the rows of table doms_params
  doms_execution_stats, \* execution ids of the rows of doms_execution_stats
  doms_data,        \* the rows of table doms_data
  passLog,          \* per finished pass: the flag returned, any write failed
  passStart,        \* doms_data when the current pass began
  passOutcome,      \* row index -> how its write of this pass resolved
  inflight,         \* row indexes whose write is issued and not yet resolved
  issued,           \* ids of the rows execute_async was called for in the pass
  sleeps,           \* number of sleep(10) calls so far
  rpc,              \* where the retrieveResults call stands
  rid,              \* its execution_id
  trim,             \* its trim_data
  params,           \* the params it read (None: not read)
  stats,            \* the stats it read (None: not read)
  dataMap,          \* the dataMap of __retrieveData
  data,             \* the list __retrieveData returns
  dataReads,        \* number of SELECTs on doms_data the call has made
  primaryRows,      \* the rows of __retrievePrimaryData, in the order read
  matchRows,        \* the rows of __enrichPrimaryDataWithMatches, as read
  startedAt         \* insertResults had "returned", had "raised" or was
                    \* still "running" when retrieveResults was called

input == <<results, arg, mode>>
call == <<execution_id, uuidCtr, inserts>>
loop == <<insert_params, i, batch, futures, awaited, move_successful>>
meta == <<doms_executions, doms_params, doms_execution_stats>>
hist == <<passLog, passStart, passOutcome, inflight, issued, sleeps>>
reader == <<rpc, rid, trim, params, stats, dataMap, data, dataReads,
            primaryRows, matchRows, startedAt>>
vars == <<input, faults, pc, call, loop, meta, doms_data, hist, reader>>

NoneArg == [kind |-> "none", v |-> None]
ExecArgs == {NoneArg} \cup {[kind |-> "str", v |-> c] : c \in CallerIds}
\* uuid.UUID(execution_id): the UUID a canonical string denotes.
UUIDOf(a) == a.v

\* No call has begun: the locals of insertResults and of retrieveResults.
NothingCalled ==
  /\ faults = 0
  /\ pc = "idle"
  /\ execution_id = None
  /\ uuidCtr = 0
  /\ inserts = <<>>
  /\ insert_params = <<>>
  /\ i = 0
  /\ batch = 0
  /\ futures = <<>>
  /\ awaited = 0
  /\ move_successful = TRUE
  /\ passLog = <<>>
  /\ passStart = {}
  /\ passOutcome = <<>>
  /\ inflight = {}
  /\ issued = <<>>
  /\ sleeps = 0
  /\ rpc = "idle"
  /\ rid = None
  /\ trim = FALSE
  /\ params = None
  /\ stats = None
  /\ dataMap = <<>>
  /\ data = <<>>
  /\ dataReads = 0
  /\ primaryRows = <<>>
  /\ matchRows = <<>>
  /\ startedAt = "running"

Init ==
  /\ \/ results \in Forests /\ mode = "few"
     \/ results \in RetryForests /\ mode = "any"
  /\ arg \in ExecArgs
  /\ doms_executions = {}
  /\ doms_params = {}
  /\ doms_execution_stats = {}
  /\ doms_data = {}
  /\ NothingCalled

\* An INSERT into doms_data: an upsert keyed by the row id.
Upsert(table, row) == {r \in table : r.id # row.id} \cup {row}

\* ----------------------------------------------------------- insertResults
\* insertResults, lines 109-113: a str execution_id becomes a UUID.
InsertResults ==
  /\ pc = "idle"
  /\ execution_id' = IF arg.kind = "str" THEN UUIDOf(arg) ELSE arg.v
  /\ pc' = "insertExecution"
  /\ UNCHANGED <<input, faults, uuidCtr, inserts, loop, meta, doms_data, hist,
                 reader>>

\* Mutant: insertExecution draws a new id whatever it was given.
ExecutionIdFresh(id, ctr) == Uuid(ctr + 1)

\* Lines 122-123: the id insertExecution writes under and returns.
ExecutionId(id, ctr) == IF id = None THEN Uuid(ctr + 1) ELSE id

\* Mutant: __insertStats is not called.
AfterParamsNoStats == "prepare"

\* Lines 115-116: __insertStats follows __insertParams.
AfterParams == "insertStats"

\* insertExecution: a None id is replaced by uuid4(); the row is written.
InsertExecution ==
  /\ pc = "insertExecution"
  /\ LET fresh == execution_id = None
         eid == ExecutionId(execution_id, uuidCtr)
     IN /\ execution_id' = eid
        /\ uuidCtr' = IF fresh THEN uuidCtr + 1 ELSE uuidCtr
        /\ doms_executions' = doms_executions \cup {eid}
  /\ pc' = "insertParams"
  /\ UNCHANGED <<input, faults, inserts, loop, doms_params,
                 doms_execution_stats, doms_data, hist, reader>>

InsertParams ==
  /\ pc = "insertParams"
  /\ doms_params' = doms_params \cup {execution_id}
  /\ pc' = AfterParams
  /\ UNCHANGED <<input, faults, call, loop, doms_executions,
                 doms_execution_stats, doms_data, hist, reader>>

InsertStats ==
  /\ pc = "insertStats"
  /\ doms_execution_stats' = doms_execution_stats \cup {execution_id}
  /\ pc' = "prepare"
  /\ UNCHANGED <<input, faults, call, loop, doms_executions, doms_params,
                 doms_data, hist, reader>>

\* __insertResults, lines 174-179: the rows are prepared once, before the loop.
Prepare ==
  /\ pc = "prepare"
  /\ inserts' = PrepareAll(execution_id, results, uuidCtr)
  /\ uuidCtr' = uuidCtr + Len(inserts')
  /\ pc' = "pass"
  /\ UNCHANGED <<input, faults, execution_id, loop, meta, doms_data, hist,
                 reader>>

\* Mutant: the rows are prepared again, with fresh row ids, for every pass.
PassRowsFresh(rows, i_) ==
  [k \in 1..Len(rows) |-> [rows[k] EXCEPT !.id = @ + i_ * Len(rows)]]

\* Mutant: a retry pass writes only the rows whose write failed before.
RECURSIVE KeepFailed(_, _)
KeepFailed(rows, n) ==
  IF rows = <<>> THEN <<>>
  ELSE (IF n \in DOMAIN passOutcome /\ passOutcome[n] = "ok"
        THEN <<>> ELSE <<Head(rows)>>)
       \o KeepFailed(Tail(rows), n + 1)
PassRowsFailed(rows, i_) == IF i_ = 0 THEN rows ELSE KeepFailed(rows, 1)

\* Line 182: the rows pass i_ hands to __insert_result_batches are the list
\* prepared before the loop.
PassRows(rows, i_) == rows

\* __insert_result_batches, lines 194-200: a pass begins.
BeginPass ==
  /\ pc = "pass"
  /\ insert_params' = PassRows(inserts, i)
  /\ move_successful' = TRUE
  /\ batch' = 1
  /\ futures' = <<>>
  /\ awaited' = 0
  /\ passStart' = doms_data
  /\ passOutcome' = <<>>
  /\ issued' = <<>>
  /\ pc' = IF Len(QueryBatches(insert_params')) = 0 THEN "passEnd" ELSE "issue"
  /\ UNCHANGED <<input, faults, call, i, meta, doms_data, passLog, inflight,
                 sleeps, reader>>

CurrentBatch == QueryBatches(insert_params)[batch]
\* Index in insert_params of the k-th entry of the current batch.
RowIndex(k) == (batch - 1) * BATCH_SIZE + k

\* Mutant: each write is joined right after it is submitted.
AfterIssueEach(submitted, size) == "await"

\* Lines 203-211: the for loop over the batch submits every entry; the loop
\* over the futures starts after it.
AfterIssue(submitted, size) == IF submitted = size THEN "await" ELSE "issue"

\* futures.append(self._session.execute_async(insertStatement, entry))
ExecuteAsync ==
  /\ pc = "issue"
  /\ futures' = Append(futures, "pending")
  /\ inflight' = inflight \cup {RowIndex(Len(futures'))}
  /\ issued' = Append(issued, CurrentBatch[Len(futures')].id)
  /\ pc' = AfterIssue(Len(futures'), Len(CurrentBatch))
  /\ UNCHANGED <<input, faults, call, insert_params, i, batch, awaited,
                 move_successful, meta, doms_data, passLog, passStart,
                 passOutcome, sleeps, reader>>

FaultAllowed == mode = "any" \/ faults < MaxFaults

\* The store resolves an in-flight write: applied and acknowledged, or failed
\* (an exception, a timeout, a rejection) with the row lost or applied late.
Resolve ==
  /\ \E k \in 1..Len(futures) :
       /\ futures[k] = "pending"
       /\ inflight' = inflight \ {RowIndex(k)}
       /\ LET row == CurrentBatch[k]
          IN \/ /\ futures' = [futures EXCEPT ![k] = "ok"]
                /\ doms_data' = Upsert(doms_data, row)
                /\ passOutcome' = (RowIndex(k) :> "ok") @@ passOutcome
                /\ faults' = faults
             \/ /\ FaultAllowed
                /\ futures' = [futures EXCEPT ![k] = "err"]
                /\ doms_data' = doms_data
                /\ passOutcome' = (RowIndex(k) :> "lost") @@ passOutcome
                /\ faults' = IF mode = "few" THEN faults + 1 ELSE faults
             \/ /\ FaultAllowed
                /\ futures' = [futures EXCEPT ![k] = "err"]
                /\ doms_data' = Upsert(doms_data, row)
                /\ passOutcome' = (RowIndex(k) :> "late") @@ passOutcome
                /\ faults' = IF mode = "few" THEN faults + 1 ELSE faults
  /\ UNCHANGED <<input, pc, call, insert_params, i, batch, awaited,
                 move_successful, meta, passLog, passStart, issued, sleeps,
                 reader>>

\* Mutant: the flag records the last future joined only.
JoinedLast(flag, outcome) == outcome # "err"

\* Lines 212-215: the flag after future.result() of a future that resolved as
\* outcome.
Joined(flag, outcome) == IF outcome = "err" THEN FALSE ELSE flag

\* Mutant: only the first future of a batch is joined.
AfterJoinFirst(joined, submitted, batch_, batches, ok) ==
  IF batch_ < batches THEN "issue" ELSE "passEnd"

\* Mutant: a failed write ends the pass.
AfterJoinAbort(joined, submitted, batch_, batches, ok) ==
  IF ~ok THEN "passEnd"
  ELSE IF joined < submitted THEN "await"
  ELSE IF batch_ < batches THEN "issue" ELSE "passEnd"

\* Lines 202-218: after future.result() of the joined-th of the submitted
\* futures of batch batch_ of batches: the next future, else the next batch,
\* else the return.  The flag ok has no part in it.
AfterJoin(joined, submitted, batch_, batches, ok) ==
  IF joined < submitted THEN "await"
  ELSE IF batch_ < batches THEN "issue" ELSE "passEnd"

\* future.result() in the try block: joins the futures of the batch in order;
\* after the last one the loop goes to the next batch or the pass ends.
FutureResult ==
  /\ pc = "await"
  /\ futures[awaited + 1] # "pending"
  /\ move_successful' = Joined(move_successful, futures[awaited + 1])
  /\ pc' = AfterJoin(awaited + 1, Len(futures), batch,
                     Len(QueryBatches(insert_params)), move_successful')
  /\ IF pc' = "await"
     THEN /\ awaited' = awaited + 1
          /\ UNCHANGED <<batch, futures>>
     ELSE /\ awaited' = 0
          /\ futures' = <<>>
          /\ batch' = IF pc' = "issue" THEN batch + 1 ELSE batch
  /\ UNCHANGED <<input, faults, call, insert_params, i, meta, doms_data, hist,
                 reader>>

\* Mutant: the loop ends after the fifth failed pass without raising.
AfterPassNoRaise(ok, i_) ==
  IF ok THEN "returned" ELSE IF i_ < MaxPasses - 1 THEN "sleep" ELSE "returned"

\* __insert_result_batches as a function of the chunk size: the store and the
\* flag after a pass over rows from store, when the write of row n resolves
\* as outcome[n] ("ok"; "lost": failed, not applied; "late": failed, applied).
RECURSIVE WriteRows(_, _, _, _)
WriteRows(rows, first, outcome, acc) ==
  IF rows = <<>> THEN acc
  ELSE WriteRows(Tail(rows), first + 1, outcome,
                 [store |-> IF outcome[first] = "lost" THEN acc.store
                            ELSE Upsert(acc.store, Head(rows)),
                  flag |-> Joined(acc.flag,
                                  IF outcome[first] = "ok" THEN "ok" ELSE "err")])
RECURSIVE WriteBatches(_, _, _, _, _)
WriteBatches(batches, b, size, outcome, acc) ==
  IF b > Len(batches) THEN acc
  ELSE WriteBatches(batches, b + 1, size, outcome,
                    WriteRows(batches[b], (b - 1) * size + 1, outcome, acc))
WritePass(rows, outcome, store, size) ==
  WriteBatches(BatchesOf(rows, size), 1, size, outcome,
               [store |-> store, flag |-> TRUE])

\* __insertResults, lines 181-190: what follows a pass of index i_ that
\* returned ok.
AfterPass(ok, i_) ==
  IF ok THEN "returned" ELSE IF i_ < MaxPasses - 1 THEN "sleep" ELSE "raised"

\* The rows whose write resolved with an error in the pass.
FailedWrites(outcome) == {k \in DOMAIN outcome : outcome[k] # "ok"}

\* __insert_result_batches returns move_successful; insertResults returns
\* execution_id ("returned") or ResultInsertException propagates ("raised").
PassEnd ==
  /\ pc = "passEnd"
  /\ passLog' = Append(passLog, [flag |-> move_successful,
                                 failed |-> FailedWrites(passOutcome) # {}])
  /\ pc' = AfterPass(move_successful, i)
  /\ UNCHANGED <<input, faults, call, loop, meta, doms_data, passStart,
                 passOutcome, inflight, issued, sleeps, reader>>

\* sleep(10), then the next iteration of the for loop.
Sleep ==
  /\ pc = "sleep"
  /\ i' = i + 1
  /\ sleeps' = sleeps + 1
  /\ pc' = "pass"
  /\ UNCHANGED <<input, faults, call, insert_params, batch, futures, awaited,
                 move_successful, meta, doms_data, passLog, passStart,
                 passOutcome, inflight, issued, reader>>

\* ---------------------------------------------------------- retrieveResults
\* The ids retrieveResults is called with: a caller's, or the one a finished
\* or running insertResults has stored under.
AskedIds == ReaderIds \cup (doms_executions)

\* retrieveResults is called (the id already a UUID).
RetrieveResults ==
  /\ rpc \in {"idle", "done", "notfound"}
  /\ \E id \in AskedIds, t \in BOOLEAN :
       /\ rid' = id
       /\ trim' = t
  /\ rpc' = "params"
  /\ params' = None
  /\ stats' = None
  /\ dataMap' = <<>>
  /\ data' = <<>>
  /\ dataReads' = 0
  /\ primaryRows' = <<>>
  /\ matchRows' = <<>>
  /\ startedAt' = IF pc \in {"returned", "raised"} THEN pc ELSE "running"
  /\ UNCHANGED <<input, faults, pc, call, loop, meta, doms_data, hist>>

\* Mutant: a lookup that finds no row returns None instead of raising.
AfterLookupSilent(found, next) == next

\* Where retrieveResults goes after a single-row lookup: on to next when the
\* loop over rows returned a row, else raise Exception("Execution not found").
AfterLookup(found, next) == IF found THEN next ELSE "notfound"

\* __retrieveParams
RetrieveParams ==
  /\ rpc = "params"
  /\ rpc' = AfterLookup(rid \in doms_params, "stats")
  /\ params' = IF rid \in doms_params THEN rid ELSE params
  /\ UNCHANGED <<input, faults, pc, call, loop, meta, doms_data, hist, rid,
                 trim, stats, dataMap, data, dataReads, primaryRows, matchRows,
                 startedAt>>

\* __retrieveStats
RetrieveStats ==
  /\ rpc = "stats"
  /\ rpc' = AfterLookup(rid \in doms_execution_stats, "primary")
  /\ stats' = IF rid \in doms_execution_stats THEN rid ELSE stats
  /\ UNCHANGED <<input, faults, pc, call, loop, meta, doms_data, hist, rid,
                 trim, params, dataMap, data, dataReads, primaryRows, matchRows,
                 startedAt>>

\* __retrievePrimaryData
RetrievePrimaryData ==
  /\ rpc = "primary"
  /\ \E rows \in Orders(SelectData(doms_data, rid, TRUE)) :
       /\ primaryRows' = rows
       /\ dataMap' = PrimaryMap(<<>>, rows, trim)
  /\ dataReads' = dataReads + 1
  /\ rpc' = "enrich"
  /\ UNCHANGED <<input, faults, pc, call, loop, meta, doms_data, hist, rid,
                 trim, params, stats, data, matchRows, startedAt>>

\* __enrichPrimaryDataWithMatches, then lines 274-275 and 269.
EnrichPrimaryDataWithMatches ==
  /\ rpc = "enrich"
  /\ \E rows \in Orders(SelectData(doms_data, rid, FALSE)) :
       /\ matchRows' = rows
       /\ dataMap' = Enrich(dataMap, rows, trim)
       /\ data' = Values(dataMap')
  /\ dataReads' = dataReads + 1
  /\ rpc' = "done"
  /\ UNCHANGED <<input, faults, pc, call, loop, meta, doms_data, hist, rid,
                 trim, params, stats, primaryRows, startedAt>>

Next ==
  \/ InsertResults
  \/ InsertExecution
  \/ InsertParams
  \/ InsertStats
  \/ Prepare
  \/ BeginPass
  \/ ExecuteAsync
  \/ Resolve
  \/ FutureResult
  \/ PassEnd
  \/ Sleep
  \/ RetrieveResults
  \/ RetrieveParams
  \/ RetrieveStats
  \/ RetrievePrimaryData
  \/ EnrichPrimaryDataWithMatches

Spec == Init /\ [][Next]_vars

\* ------------------------------------------------------------- fairness
\* insertResults runs in the caller's thread, which goes on while it has a step
\* to take: sleep(10) returns and future.result() returns once its future has
\* resolved.  The store resolves every write it has accepted.
StoreStep ==
  \/ InsertResults
  \/ InsertExecution
  \/ InsertParams
  \/ InsertStats
  \/ Prepare
  \/ BeginPass
  \/ ExecuteAsync
  \/ FutureResult
  \/ PassEnd
  \/ Sleep

\* One insertResults call and the store, with no retrieveResults beside it:
\* retrieveResults writes nothing that insertResults or the store reads.
NextStore == StoreStep \/ Resolve

FairStore ==
  Init /\ [][NextStore]_vars /\ WF_vars(StoreStep) /\ WF_vars(Resolve)

\* ------------------------------------------------- rows of the old schema
\* A keyspace that holds one execution written before measurement_values_json
\* existed, read back by retrieveResults.  A row of the old schema has the
\* measurement_values map and neither measurement_values_json nor file_url;
\* beside it the execution holds the row of the current schema that stores the
\* same measurements, and when the two are matches, the row of their primary.
MaxValue == 2
MeasurementNames == {"sst", "wind", "lon"}
MeasurementMaps ==
  UNION {[names -> 1..MaxValue] : names \in SUBSET MeasurementNames}
LegacyExecution == CHOOSE id \in ReaderIds : TRUE
RowFields(value_id, primary_value_id, n) ==
  [id |-> Uuid(n), execution_id |-> LegacyExecution, value_id |-> value_id,
   primary_value_id |-> primary_value_id, x |-> 7, y |-> 8,
   source_dataset |-> "A", measurement_time |-> n, platform |-> None,
   device |-> None, is_primary |-> IsPrimary(primary_value_id), depth |-> None]
LegacyRow(values, primary_value_id) ==
  SetKey(RowFields(1, primary_value_id, 1), "measurement_values", values)
CurrentRow(values, primary_value_id) ==
  SetKey(SetKey(RowFields(2, primary_value_id, 2), "file_url", None),
       "measurement_values_json", JsonDumps(values))
PrimaryRow ==
  SetKey(SetKey(RowFields(3, None, 3), "file_url", None),
       "measurement_values_json", JsonDumps(<<>>))

InitLegacy ==
  /\ results = <<>>
  /\ mode = "few"
  /\ arg = NoneArg
  /\ doms_executions = {LegacyExecution}
  /\ doms_params = {LegacyExecution}
  /\ doms_execution_stats = {LegacyExecution}
  /\ \E values \in MeasurementMaps :
       \/ doms_data = {LegacyRow(values, None), CurrentRow(values, None)}
       \/ doms_data = {LegacyRow(values, 3), CurrentRow(values, 3), PrimaryRow}
  /\ NothingCalled

NextRetrieve ==
  \/ RetrieveResults
  \/ RetrieveParams
  \/ RetrieveStats
  \/ RetrievePrimaryData
  \/ EnrichPrimaryDataWithMatches

SpecLegacy == InitLegacy /\ [][NextRetrieve]_vars

\* ================================================================== claims
Range(seq) == {seq[n] : n \in 1..Len(seq)}
\* The insertResults call is inside a write pass.
InPass == pc \in {"issue", "await", "passEnd"}
\* The rows of doms_data that belong to the execution being stored.
Stored == {r \in doms_data : r.execution_id = execution_id}

\* ---- the input forest, read independently of the flattener
Matches(point) == IF "matches" \in DOMAIN point THEN point.matches ELSE <<>>
RECURSIVE Count(_)
Count(f) == IF f = <<>> THEN 0 ELSE 1 + Count(Matches(Head(f))) + Count(Tail(f))
\* The points of a forest in preorder.
RECURSIVE Preorder(_)
Preorder(f) ==
  IF f = <<>> THEN <<>>
  ELSE <<Head(f)>> \o Preorder(Matches(Head(f))) \o Preorder(Tail(f))
\* Preorder number of a point -> that of its parent (0 for a top-level point),
\* for the forest f whose first point has number n and whose parent has
\* number parent.
RECURSIVE ParentsFrom(_, _, _)
ParentsFrom(f, n, parent) ==
  IF f = <<>> THEN <<>>
  ELSE (n :> parent)
         @@ ParentsFrom(Matches(Head(f)), n + 1, n)
         @@ ParentsFrom(Tail(f), n + 1 + Count(Matches(Head(f))), parent)
\* The points of the input are numbered in preorder, and MakeForest gave the
\* n-th point lon = n: the lon of a point, the x of a row and the lon of an
\* entry name the occurrence they stand for.
ParentOf == ParentsFrom(results, 1, 0)
DepthOf(n) == IF ParentOf[n] = 0 THEN 0 ELSE IF ParentOf[ParentOf[n]] = 0 THEN 1 ELSE 2
\* insertResults has prepared the row sequence.
Prepared ==
  pc \notin {"idle", "insertExecution", "insertParams", "insertStats", "prepare"}
\* The row of the n-th point.
RowsOf(n) == {r \in Range(inserts) : r.x = n}
\* The occurrence an entry was decoded from.
EntryPoint(entry) == IF trim THEN entry.lon ELSE entry.lon[2]
\* The entry a point decodes to, field by field, when it is read back
\* untrimmed (no point of the model has a platform or a device).
Decoded(point) ==
  LET fields == [platform |-> None, device |-> None,
                 lon |-> Str(point.lon), lat |-> Str(point.lat),
                 point |-> PointLabel(point.lon, point.lat),
                 time |-> Utc(point.time), depth |-> Float(point.depth),
                 fileurl |-> point.fileurl, id |-> point.id,
                 source |-> point.source]
  IN IF "primary" \in DOMAIN point
     THEN SetKey(fields, "primary", point.primary)
     ELSE SetKey(fields, "secondary", point.secondary)
\* A top-level point or entry as the pair of its own fields and the set of
\* its matches.
Shallow(entry) == [k \in DOMAIN entry \ {"matches"} |-> entry[k]]
PointView(point) ==
  [top |-> Decoded(point),
   matches |-> {Decoded(m) : m \in Range(Matches(point))},
   count |-> Len(Matches(point))]
EntryView(entry) ==
  [top |-> Shallow(entry),
   matches |-> {Shallow(m) : m \in Range(Matches(entry))},
   count |-> Len(Matches(entry))]
\* Every match of a top-level point is a leaf.
DepthOne(f) == \A n \in 1..Len(f) : \A m \in Range(Matches(f[n])) : Matches(m) = <<>>
\* retrieveResults has returned the forest of the execution being stored.
Retrieved == rpc = "done" /\ rid = execution_id

\* C1: insertResults returns normally only after a pass in which the write of
\* every row of the flattened sequence resolved without error, so that the
\* store holds every row of the sequence; the only other outcome of the data
\* write is ResultInsertException, raised after a pass with a failed write.
C1_AllWrittenOrRaised ==
  /\ pc = "returned" =>
       /\ DOMAIN passOutcome = 1..Len(inserts)
       /\ \A k \in 1..Len(inserts) : passOutcome[k] = "ok"
       /\ Range(inserts) \subseteq doms_data
       /\ ~passLog[Len(passLog)].failed
  /\ pc = "raised" => passLog[Len(passLog)].failed
  /\ pc \in {"sleep", "raised"} => FailedWrites(passOutcome) # {}

\* A store call returned after a retry, with rows in more than one batch.
C1_Witness ==
  /\ pc = "returned"
  /\ Len(passLog) >= 2
  /\ Len(inserts) > BATCH_SIZE

\* C2: when each of the 5 passes had a failed write the call raises
\* ResultInsertException; there are never more than 5 passes, and no pass
\* follows a pass in which every write succeeded.
C2_RetryExhaustion ==
  /\ Len(passLog) <= MaxPasses
  /\ i < MaxPasses
  /\ (Len(passLog) = MaxPasses /\ \A p \in 1..MaxPasses : passLog[p].failed)
       => pc = "raised"
  /\ pc = "raised" => Len(passLog) = MaxPasses
  /\ \A p \in 1..Len(passLog) :
       ~passLog[p].failed => (p = Len(passLog) /\ pc = "returned")

\* The fifth pass failed and the call raised.
C2_Witness ==
  /\ pc = "raised"
  /\ Len(passLog) = MaxPasses
  /\ Len(inserts) > BATCH_SIZE

\* C3: every pass writes the row sequence prepared before the first pass,
\* with the same row ids, so the store holds at most one row per row id of
\* the sequence and never more rows for the execution than the sequence has;
\* a pass that starts on a store holding every row leaves the store as it was.
C3_IdempotentRetry ==
  /\ InPass => insert_params = inserts
  /\ Stored \subseteq Range(inserts)
  /\ Cardinality(Stored) <= Len(inserts)
  /\ \A r, q \in Stored : r.id = q.id => r = q
  /\ (InPass /\ Range(insert_params) \subseteq passStart) => doms_data = passStart

\* A retry pass ran to its end on a store that already held every row.
C3_Witness ==
  /\ pc = "passEnd"
  /\ i >= 1
  /\ Len(insert_params) > BATCH_SIZE
  /\ Range(insert_params) \subseteq passStart

\* C4: for a forest of top-level points with direct matches only, an
\* untrimmed retrieve of the id a successful store returned gives back the
\* input forest: the same top-level points, each with exactly its own
\* matches, whatever point identifiers repeat.
C4_RoundTripDepthOne ==
  (Retrieved /\ startedAt = "returned" /\ ~trim /\ DepthOne(results)) =>
     /\ Len(data) = Len(results)
     /\ {EntryView(e) : e \in Range(data)} = {PointView(q) : q \in Range(results)}

Identifies(ref, row) == ref = row.id \/ ref = row.value_id

\* C6: the flattener emits one row per MatchPoint occurrence, and the parent
\* reference of every row of a match identifies exactly one row, the row of
\* its actual parent, whatever point identifiers repeat.
C6_RowsFormTheForest ==
  Prepared =>
    /\ Len(inserts) = Count(results)
    /\ \A n \in 1..Count(results) : Cardinality(RowsOf(n)) = 1
    /\ \A r \in Range(inserts) :
         ParentOf[r.x] # 0 =>
           {q \in Range(inserts) : Identifies(r.primary_value_id, q)}
             = RowsOf(ParentOf[r.x])

\* C7: in the forest retrieve returns, every match hangs under the entry of
\* its actual immediate parent, and no row of depth 2 or more appears.
C7_OnlyActualParents ==
  Retrieved =>
    \A e \in Range(data) :
      /\ DepthOf(EntryPoint(e)) < 2
      /\ \A m \in Range(Matches(e)) :
           /\ DepthOf(EntryPoint(m)) < 2
           /\ ParentOf[EntryPoint(m)] = EntryPoint(e)

\* C8: a pass issues the write of every row, and for the row sequence and
\* the per-row write outcomes of the pass, the store and the flag at its end
\* are those a pass with any other chunk size (1, ..., the row count and
\* beyond) produces.
C8_ChunkingInvariance ==
  pc = "passEnd" =>
    /\ DOMAIN passOutcome = 1..Len(insert_params)
    /\ \A size \in 1..(Len(insert_params) + 1) :
         WritePass(insert_params, passOutcome, passStart, size)
           = [store |-> doms_data, flag |-> move_successful]

\* A pass over more than one batch ended with a failed write and with rows
\* written.
C8_Witness ==
  /\ pc = "passEnd"
  /\ Len(insert_params) > BATCH_SIZE
  /\ ~move_successful
  /\ doms_data # passStart

C10_TrimmedKeys ==
  (rpc = "done" /\ trim) =>
    \A e \in Range(data) : DOMAIN e = {"lon", "lat", "source", "time"}

\* ---- rows of the old schema
\* Every entry of the forest retrieve returned, matches included.
AllEntries == Range(data) \cup UNION {Range(Matches(e)) : e \in Range(data)}
\* The entries decoded from the row of the old schema and from the row of the
\* current schema (told apart by their measurement_time).
LegacyEntries == {e \in AllEntries : e.time = Utc(1)}
CurrentEntries == {e \in AllEntries : e.time = Utc(2)}
LegacyRows == {r \in doms_data : "measurement_values_json" \notin DOMAIN r}
Without(entry, keys) == [k \in DOMAIN entry \ keys |-> entry[k]]
PayloadKeys == {"primary", "secondary"}

\* C11 as claimed: a row of the old schema decodes to the same entry, with the
\* same keys and the same nesting of the measurements, as the row of the
\* current schema that stores the same measurements.
C11_SameEntry ==
  rpc = "done" =>
    \A le \in LegacyEntries, ce \in CurrentEntries :
      Without(le, {"id", "time"}) = Without(ce, {"id", "time"})

\* C11 amended: the row of the current schema decodes to an entry that holds
\* the measurement map under its payload key ("primary" or "secondary"); the
\* row of the old schema, used exactly when measurement_values_json is absent,
\* decodes to an entry without payload key in which every measurement is a key
\* of the entry itself (replacing an entry field of the same name).
C11_LegacyFlat ==
  rpc = "done" =>
    \A r \in LegacyRows : \A le \in LegacyEntries, ce \in CurrentEntries :
      LET values == r.measurement_values
          fields == Without(ce, PayloadKeys)
      IN /\ Cardinality(DOMAIN ce \cap PayloadKeys) = 1
         /\ \A k \in DOMAIN ce \cap PayloadKeys : ce[k] = values
         /\ DOMAIN le = DOMAIN fields \cup DOMAIN values
         /\ \A k \in DOMAIN le :
              le[k] = IF k \in DOMAIN values THEN Float(values[k])
                      ELSE IF k \in {"id", "time"} THEN le[k]
                      ELSE fields[k]

\* Both rows were decoded, as matches, and the old row has two measurements.
C11_Witness ==
  /\ rpc = "done"
  /\ LegacyEntries # {} /\ CurrentEntries # {}
  /\ \E r \in LegacyRows :
       Cardinality(DOMAIN r.measurement_values) >= 2 /\ r.is_primary = 0

\* C12: after insertResults has raised ResultInsertException for an
\* execution, a later retrieveResults of that execution does not return a
\* (params, stats, forest) result.
C12_AllOrNothing ==
  (startedAt = "raised" /\ rid = execution_id) => rpc # "done"

\* C13: the is_primary flag of a row is set exactly when the row has no parent
\* reference, and that is exactly when the row was emitted for a top-level
\* point of the input, whatever the point ids of its ancestors are.
C13_TopLevelFlag ==
  Prepared =>
    \A r \in Range(inserts) :
      /\ (r.is_primary = 1) <=> (r.primary_value_id = None)
      /\ (r.is_primary = 1) <=> (ParentOf[r.x] = 0)

\* ---- the rows a retrieve read, by point identifier
\* The point identifiers of the top-level rows read.
PrimaryIds == {primaryRows[n].value_id : n \in 1..Len(primaryRows)}
\* The top-level row with identifier v that was read last.
LastRead(v) ==
  LET at == {n \in 1..Len(primaryRows) : primaryRows[n].value_id = v}
  IN primaryRows[CHOOSE n \in at : \A m \in at : m <= n]
\* The entries of the non-top-level rows read whose reference is v, in order.
RECURSIVE MatchesRead(_, _)
MatchesRead(rows, v) ==
  IF rows = <<>> THEN <<>>
  ELSE (IF Head(rows).primary_value_id = v
        THEN <<rowToDataEntry(Head(rows), trim)>> ELSE <<>>)
       \o MatchesRead(Tail(rows), v)
\* The positions of dataMap that hold identifier v.
SlotsOf(v) == {n \in 1..Len(dataMap) : dataMap[n].key = v}

\* C14: when top-level rows of an execution share a point identifier, the
\* forest retrieveResults builds holds exactly one top-level entry for the
\* identifier, the entry of the row read last; the entries of the rows read
\* before it do not appear, and every non-top-level row whose reference is the
\* identifier is among the matches of that entry.
C14_LastReadWins ==
  rpc \in {"enrich", "done"} =>
    /\ Len(dataMap) = Cardinality(PrimaryIds)
    /\ \A v \in PrimaryIds :
         /\ Cardinality(SlotsOf(v)) = 1
         /\ LET entry == Get(dataMap, v)
            IN /\ Without(entry, {"matches"}) = rowToDataEntry(LastRead(v), trim)
               /\ rpc = "done" =>
                    Matches(entry) = MatchesRead(matchRows, v)
    /\ rpc = "done" => data = Values(dataMap)

C14_Witness ==
  /\ rpc = "done"
  /\ Len(data) = 1
  /\ \E n, m \in 1..Len(primaryRows) :
       /\ n < m
       /\ primaryRows[n].value_id = primaryRows[m].value_id
       /\ \E k \in 1..Len(matchRows) :
            matchRows[k].primary_value_id = primaryRows[m].value_id

\* C15: insertResults stores under, and returns, the execution id it was given
\* when it was given one and a newly drawn uuid when it was given None; the
\* doms_executions, doms_params and doms_execution_stats rows and every
\* doms_data row of the call carry that id and no other.
C15_OneExecutionId ==
  pc \notin {"idle", "insertExecution"} =>
    /\ arg.kind = "str" => execution_id = UUIDOf(arg)
    /\ arg.kind = "none" =>
         /\ execution_id \notin {None} \cup CallerIds \cup ReaderIds
         /\ \A r \in Range(inserts) : r.id # execution_id
    /\ doms_executions = {execution_id}
    /\ doms_params \subseteq {execution_id}
    /\ doms_execution_stats \subseteq {execution_id}
    /\ \A r \in doms_data \cup Range(inserts) \cup Range(insert_params) :
         r.execution_id = execution_id
    /\ pc = "returned" =>
         /\ doms_params = {execution_id}
         /\ doms_execution_stats = {execution_id}

C15_Witness ==
  /\ pc = "returned"
  /\ arg.kind = "none"
  /\ execution_id = Uuid(1)
  /\ Cardinality(doms_data) = MaxNodes

\* The writes the store has not yet resolved that belong to the current batch.
InflightOfBatch == {RowIndex(k) : k \in 1..Len(futures)}

\* C16: in a pass no write of a batch is issued while a write of the batch
\* before it is unresolved, so at most BATCH_SIZE writes are in flight at any
\* moment; within a batch every write is submitted before any is joined.
C16_OneBatchInFlight ==
  /\ Cardinality(inflight) <= BATCH_SIZE
  /\ InPass => inflight \subseteq InflightOfBatch
  /\ ~InPass => inflight = {}
  /\ (pc = "issue" /\ futures = <<>>) => inflight = {}
  /\ pc = "issue" => awaited = 0
  /\ pc = "await" => Len(futures) = Len(CurrentBatch)
  /\ awaited > 0 => pc = "await"

C16_Witness ==
  /\ pc \in {"issue", "await"}
  /\ batch = 2
  /\ Len(futures) = 1
  /\ inflight = {RowIndex(1)}
  /\ Len(issued) = BATCH_SIZE + 1

\* The rows of the pass whose future has been joined.
JoinedRows ==
  IF pc = "passEnd" THEN 1..Len(insert_params)
  ELSE 1..((batch - 1) * BATCH_SIZE + awaited)

\* C17: a pass returns True exactly when the write of every row of every batch
\* resolved without error; a failed write in any batch makes it return False
\* whatever the later batches do, and does not end the pass: every remaining
\* future of the batch is joined and every remaining batch is issued.
C17_FlagIsConjunction ==
  /\ InPass =>
       /\ JoinedRows \subseteq DOMAIN passOutcome
       /\ move_successful <=> \A n \in JoinedRows : passOutcome[n] = "ok"
  /\ pc = "passEnd" =>
       /\ inflight = {}
       /\ Len(issued) = Len(insert_params)
  /\ \A p \in 1..Len(passLog) : passLog[p].flag <=> ~passLog[p].failed

C17_Witness ==
  /\ pc = "passEnd"
  /\ ~move_successful
  /\ Len(insert_params) > BATCH_SIZE
  /\ passOutcome[1] # "ok"
  /\ \A n \in 2..Len(insert_params) : passOutcome[n] = "ok"
  /\ Len(issued) = Len(insert_params)

\* C18: after a failed pass that is not the fifth, insertResults sleeps and
\* then issues a write for every row of the prepared list again, rows already
\* stored included, in the same order and with the same row ids; it sleeps
\* only between two passes: not before the first pass, not after a pass that
\* succeeded and not after the fifth failed pass.
C18_BackoffThenFullPass ==
  /\ sleeps = i
  /\ sleeps <= MaxPasses - 1
  /\ sleeps = IF pc \in {"sleep", "returned", "raised"}
              THEN Len(passLog) - 1 ELSE Len(passLog)
  /\ \A p \in 1..sleeps : ~passLog[p].flag
  /\ pc = "sleep" =>
       /\ ~passLog[Len(passLog)].flag
       /\ Len(passLog) < MaxPasses
  /\ InPass =>
       /\ insert_params = inserts
       /\ Len(issued) <= Len(inserts)
       /\ \A k \in 1..Len(issued) : issued[k] = inserts[k].id
  /\ pc = "passEnd" => Len(issued) = Len(inserts)

C18_Witness ==
  /\ pc = "passEnd"
  /\ sleeps = 1
  /\ Len(inserts) > BATCH_SIZE
  /\ Len(issued) = Len(inserts)
  /\ passStart \cap Range(inserts) # {}

Ended == pc \in {"returned", "raised"}

\* C19: if every write issued is resolved in the end, every insertResults call
\* ends, by returning the execution id or by raising ResultInsertException,
\* and when it has ended no write it issued is in flight.
C19_EndsWithNothingInFlight ==
  /\ <>Ended
  /\ [](Ended => inflight = {} /\ futures = <<>>)

C19_Witness ==
  /\ pc = "raised"
  /\ sleeps = MaxPasses - 1
  /\ Len(inserts) > BATCH_SIZE
  /\ inflight = {}

\* The call has issued or stored a data row.
DataBegun == issued # <<>> \/ inflight # {} \/ Stored # {}

\* C20: insertResults writes the doms_executions row, then the doms_params
\* row, then the doms_execution_stats row before it issues any doms_data
\* write, so an execution with a data row of the call has those three rows;
\* hence no retrieveResults of the execution raises "Execution not found"
\* once a data row of it is stored, whether the store is unfinished or failed.
C20_MetaBeforeData ==
  /\ [](DataBegun =>
          /\ execution_id \in doms_executions
          /\ execution_id \in doms_params
          /\ execution_id \in doms_execution_stats)
  /\ [][(Stored # {} /\ rid = execution_id /\ rpc # "notfound")
          => rpc' # "notfound"]_vars

C20_Witness ==
  /\ rpc = "done"
  /\ rid = execution_id
  /\ data # <<>>
  /\ InPass
  /\ i = 0
  /\ startedAt = "running"
====
